---- MODULE Spec2Model ----
(***************************************************************************)
(* State-machine model of the unified-ui agent service proof of concept:   *)
(*   py/agent.py        ReACTAgent (setup, MCP tool bridge, streaming)     *)
(*   py/agent_config.py configuration models                               *)
(*   py/main.py         the command-line loop                              *)
(*   mcp/server.py      the example calculator provider                    *)
(*                                                                         *)
(* Text is modelled as a sequence of tokens, so that concatenation (+=)    *)
(* is \o and the empty string is << >>.                                    *)
(***************************************************************************)
EXTENDS Integers, Sequences, FiniteSets, TLC

VARIABLES
    MCP_AVAILABLE,  \* agent.py:13-19, module flag set by the import of mcp
    config,         \* config.settings.tools, the list of ToolConfig
    orch,           \* where the orchestrator is: Uninitialized, SettingUp, ...
    loadIdx,        \* position of the for loop of _load_tools (agent.py:109)
    loading,        \* 0, or the index of the discovery _load_mcp_tools awaits
    tools,          \* the tools list built by _load_tools / _load_mcp_tools
    printed,        \* what setup printed: the reported providers
    abortExc,       \* exception that left initialize / the current turn, or ""
    ops,            \* every _get_mcp_tools_async / _call_mcp_tool_async call
    sessions,       \* every stdio_client channel + ClientSession ever opened
    raw,            \* raw events the engine emitted in the current turn
    received,       \* how many of them invoke_stream's async for has taken
    yielded,        \* the normalized events invoke_stream yielded this turn
    response,       \* result extraction on its own: the provider's response
    result,         \* result extraction on its own: [done, text]
    callExc,        \* exception a call of invoke / invoke_stream raised
                    \* before the engine ran, or "none"
    instructions,   \* config.settings.instructions
    messages,       \* the caller's message history (list[UnifiedUIMessage])
    langchain_messages, \* what _convert_to_langchain_messages returned last
    cli,            \* main.py: where main() is, "none" without main.py
    user_input,     \* main.py: the line input() returned last
    agent_response_content, \* main.py:31, the text collected in this turn
    VALID_TOKEN,    \* server.py:17
    auth_header,    \* server.py: Authorization header of the last request
    served          \* server.py: what the last tool request was answered

vars == <<MCP_AVAILABLE, config, orch, loadIdx, loading, tools, printed,
          abortExc, ops, sessions, raw, received, yielded,
          response, result, callExc, instructions, messages,
          langchain_messages, cli, user_input, agent_response_content,
          VALID_TOKEN, auth_header, served>>

setupVars == <<orch, loadIdx, loading, tools, printed>>
turnVars  == <<raw, received, yielded>>
extractVars == <<response, result>>
convertVars == <<instructions, messages, langchain_messages>>
mainVars == <<cli, user_input, agent_response_content>>
serverVars == <<VALID_TOKEN, auth_header, served>>
hostVars == <<mainVars, serverVars>>

-----------------------------------------------------------------------------
(* Bounds of the model.                                                    *)

MaxProviders == 2   \* length of config.settings.tools
MaxCalls     == 2   \* bridged-capability calls made by the engine in a run
MaxInFlight  == 1   \* bridged-capability calls in progress at the same time
MaxEvents    == 3   \* raw events the engine emits on its own in one turn
MaxFrags     == 3   \* content fragments of one provider response
MaxMsgs      == 3   \* messages of the caller's history
MaxToken     == 2   \* characters of a bearer token

-----------------------------------------------------------------------------
(* Configuration values (agent_config.py).                                 *)

\* The shapes an mcp_config value can have when _load_mcp_tools reads it.
\* isDict: a plain mapping (ToolConfig.mcp_config: MCPServerConfig | dict);
\* otherwise an object.  command / url: whether that key or attribute is
\* there.  MCPServerConfig itself declares url and headers only, so a
\* configuration loaded from JSON never has a command attribute once
\* _load_mcp_tools has converted it; an object with a command attribute is an
\* instance of a class extending MCPServerConfig, placed in the AgentConfig
\* by the program that constructs the agent.  It is the only shape for which
\* agent.py:168-172 builds the transport parameters.
DictProcess == [isDict |-> TRUE,  command |-> TRUE,  url |-> FALSE]
DictNetwork == [isDict |-> TRUE,  command |-> FALSE, url |-> TRUE]
DictNeither == [isDict |-> TRUE,  command |-> FALSE, url |-> FALSE]
ObjNetwork  == [isDict |-> FALSE, command |-> FALSE, url |-> TRUE]
ObjStdio    == [isDict |-> FALSE, command |-> TRUE,  url |-> TRUE]

\* allowed_tools: list[str] | None = None; "absent" stands for None.
Absent == {"absent"}

ToolConfig ==
    {[type |-> "mcp_server", name |-> "calc", mcp_config |-> ObjStdio,
      allowed_tools |-> Absent],
     [type |-> "mcp_server", name |-> "calc2", mcp_config |-> ObjStdio,
      allowed_tools |-> {"add", "stale"}],
     [type |-> "mcp_server", name |-> "net", mcp_config |-> DictNetwork,
      allowed_tools |-> Absent],
     [type |-> "mcp_server", name |-> "netobj", mcp_config |-> ObjNetwork,
      allowed_tools |-> Absent],
     [type |-> "mcp_server", name |-> "proc", mcp_config |-> DictProcess,
      allowed_tools |-> Absent],
     [type |-> "mcp_server", name |-> "empty", mcp_config |-> DictNeither,
      allowed_tools |-> Absent],
     [type |-> "web_search", name |-> "web", mcp_config |-> DictNetwork,
      allowed_tools |-> Absent]}

SeqsUpTo(S, n) == UNION {[1..k -> S] : k \in 0..n}

\* MCPServerConfig(**mcp_config): pydantic requires url, ignores other keys.
\* The result is an MCPServerConfig, which has no command attribute.
MCPServerConfig(d) ==
    IF d.url THEN [ok |-> TRUE,  value |-> ObjNetwork]
             ELSE [ok |-> FALSE, value |-> d]

-----------------------------------------------------------------------------
(* Provider responses and result extraction (agent.py:199-217).            *)

\* One content fragment of a response.  "text": an object with a text
\* attribute; "dict": a mapping with a 'text' key; "image": an object without
\* text; "dictother": a mapping without a 'text' key.
Fragments ==
    {[kind |-> "text",  text |-> <<"4">>],
     [kind |-> "text",  text |-> <<"2">>],
     [kind |-> "text",  text |-> << >>],
     [kind |-> "dict",  text |-> <<"x">>],
     [kind |-> "image", text |-> << >>],
     [kind |-> "dictother", text |-> << >>]}

\* A response: hasContent is hasattr(response, 'content'); content is the
\* list of fragments (empty also stands for content = None).
ResponsesUpTo(n) ==
    {[hasContent |-> FALSE, content |-> << >>]} \cup
    {[hasContent |-> TRUE, content |-> c] : c \in SeqsUpTo(Fragments, n)}

\* str(response): a rendering of the object, never empty.
Str(r) ==
    IF r.hasContent
    THEN <<"content=[">> \o [i \in 1..Len(r.content) |-> r.content[i].kind]
         \o <<"]">>
    ELSE <<"<object>">>

\* agent.py:209-213, the for loop over response.content.
RECURSIVE ConcatText(_)
ConcatText(c) ==
    IF c = << >> THEN << >>
    ELSE LET f == Head(c)
         IN  (IF f.kind \in {"text", "dict"} THEN f.text ELSE << >>)
             \o ConcatText(Tail(c))

\* agent.py:199-217, the extraction of result from response.
ExtractResult(r) ==
    IF r.hasContent /\ r.content # << >>
    THEN ConcatText(r.content)
    ELSE Str(r)

-----------------------------------------------------------------------------
(* Session scope: one _get_mcp_tools_async or _call_mcp_tool_async call.   *)

NoExc == "none"

\* The call of _get_mcp_tools_async or _call_mcp_tool_async up to its first
\* await.  agent.py:168-172 / 193-197: StdioServerParameters(command=
\* mcp_config.command, ...) raises AttributeError when the object has no
\* command attribute; otherwise stdio_client is entered next.
\* caller is the thread the coroutine was created on ("loop": a thread that
\* is running an event loop, "plain": one that is not), blocks whether that
\* thread is blocked until the coroutine is done, runs the event loop the
\* coroutine runs on ("running": the caller's, "new": one made for it).  A
\* coroutine that is awaited (agent.py:132) runs on the caller's loop and
\* does not block it.
NewOp(kind, mc, tn, tool) ==
    [kind |-> kind, mc |-> mc, tn |-> tn, tool |-> tool,
     pc |-> IF mc.command THEN "stdio_client" ELSE "raised",
     sid |-> 0,
     exc |-> IF mc.command THEN NoExc ELSE "AttributeError",
     out |-> << >>, seen |-> FALSE,
     caller |-> "loop", blocks |-> FALSE, runs |-> "running"]

NewSession(i, mc) ==
    [owner |-> i, mc |-> mc, transport |-> "Process", chan |-> "open",
     sess |-> "none",
     initialized |-> FALSE, chanCloses |-> 0, sessCloses |-> 0,
     log |-> << >>]

\* async with stdio_client(server_params): every entry spawns a new channel.
OpenSessionReuse(ss, i, mc) ==
    IF ss = << >> THEN Append(ss, NewSession(i, mc))
    ELSE [ss EXCEPT ![Len(ss)].chan = "open", ![Len(ss)].sess = "none",
                    ![Len(ss)].initialized = FALSE]

OpenSession(ss, i, mc) == Append(ss, NewSession(i, mc))

\* An exception (or cancellation) raised inside the two async with blocks:
\* control goes to ClientSession.__aexit__, then stdio_client.__aexit__.
UnwindLeak(o, e) == [o EXCEPT !.exc = e, !.pc = "raised"]

Unwind(o, e) == [o EXCEPT !.exc = e, !.pc = "exit_session"]

\* The request of the body, sent on the operation's session.
RequestOf(o, i) ==
    [op |-> i, req |-> IF o.kind = "discover" THEN "list_tools" ELSE "call_tool",
     name |-> o.tool]

Finished(o) == o.pc \in {"returned", "raised"}

\* Manifests a provider may answer list_tools with.
Manifests == {<< >>, <<"add">>, <<"add", "subtract">>}

\* What the provider answers the call_tool request for capability name
\* with: one text fragment, "4" for add and "2" for any other capability.
Answer(name) == IF name = "add" THEN <<"4">> ELSE <<"2">>

\* Responses a provider may answer call_tool with in the agent model.
CallResponses(name) ==
    {r \in ResponsesUpTo(1) :
        /\ r.hasContent
        /\ r.content # << >>
        /\ r.content[1] = [kind |-> "text", text |-> Answer(name)]}

\* agent.py:175 / 200: entering stdio_client spawns the process, or fails, or
\* is cancelled while waiting; nothing is open in the last two cases.
EnterStdio(i) ==
    /\ ops[i].pc = "stdio_client"
    /\ \/ /\ sessions' = OpenSession(sessions, i, ops[i].mc)
          /\ ops' = [ops EXCEPT ![i].pc = "ClientSession",
                                ![i].sid = Len(sessions')]
       \/ /\ \E e \in {"TransportError", "CancelledError"} :
                ops' = [ops EXCEPT ![i].pc = "raised", ![i].exc = e]
          /\ UNCHANGED sessions
    /\ UNCHANGED <<MCP_AVAILABLE, config, setupVars, abortExc, turnVars,
                   extractVars, callExc, convertVars,
                   hostVars>>

\* agent.py:176 / 201: entering ClientSession(read, write).
EnterSession(i) ==
    /\ ops[i].pc = "ClientSession"
    /\ sessions' = [sessions EXCEPT ![ops[i].sid].sess = "open"]
    /\ ops' = [ops EXCEPT ![i].pc = "initialize"]
    /\ UNCHANGED <<MCP_AVAILABLE, config, setupVars, abortExc, turnVars,
                   extractVars, callExc, convertVars,
                   hostVars>>

\* agent.py:177 / 202: await session.initialize().
InitializeIgnored(i) ==
    /\ ops[i].pc = "initialize"
    /\ LET s == ops[i].sid
           sent == [sessions EXCEPT ![s].log =
                       Append(@, [op |-> i, req |-> "initialize",
                                  name |-> "none"])]
       IN  \/ /\ sessions' = [sent EXCEPT ![s].initialized = TRUE]
              /\ ops' = [ops EXCEPT ![i].pc = "request"]
           \/ /\ sessions' = sent
              /\ ops' = [ops EXCEPT ![i].pc = "request"]
    /\ UNCHANGED <<MCP_AVAILABLE, config, setupVars, abortExc, turnVars,
                   extractVars, callExc, convertVars,
                   hostVars>>

Initialize(i) ==
    /\ ops[i].pc = "initialize"
    /\ LET s == ops[i].sid
           sent == [sessions EXCEPT ![s].log =
                       Append(@, [op |-> i, req |-> "initialize",
                                  name |-> "none"])]
       IN  \/ /\ sessions' = [sent EXCEPT ![s].initialized = TRUE]
              /\ ops' = [ops EXCEPT ![i].pc = "request"]
           \/ /\ sessions' = sent
              /\ \E e \in {"TransportError", "CancelledError"} :
                    ops' = [ops EXCEPT ![i] = Unwind(@, e)]
    /\ UNCHANGED <<MCP_AVAILABLE, config, setupVars, abortExc, turnVars,
                   extractVars, callExc, convertVars,
                   hostVars>>

\* agent.py:180-187: await session.list_tools() and the loop building
\* tools_info (the names are what the bridge uses).
ListTools(i) ==
    /\ ops[i].pc = "request"
    /\ ops[i].kind = "discover"
    /\ sessions' = [sessions EXCEPT ![ops[i].sid].log =
                       Append(@, RequestOf(ops[i], i))]
    /\ \/ \E m \in Manifests :
             ops' = [ops EXCEPT ![i].pc = "exit_session", ![i].out = m]
       \/ \E e \in {"McpError", "CancelledError"} :
             ops' = [ops EXCEPT ![i] = Unwind(@, e)]
    /\ UNCHANGED <<MCP_AVAILABLE, config, setupVars, abortExc, turnVars,
                   extractVars, callExc, convertVars,
                   hostVars>>

\* agent.py:205-215: await session.call_tool(tool_name, arguments) and the
\* extraction of result.
CallToolRetry(i) ==
    /\ ops[i].pc = "request"
    /\ ops[i].kind = "call"
    /\ sessions' = [sessions EXCEPT ![ops[i].sid].log =
                       Append(@, RequestOf(ops[i], i))]
    /\ \/ \E r \in CallResponses(ops[i].tool) :
             ops' = [ops EXCEPT ![i].pc = "exit_session",
                                ![i].out = ExtractResult(r)]
       \/ /\ Len(sessions[ops[i].sid].log) < 3
          /\ ops' = ops
       \/ \E e \in {"McpError", "CancelledError"} :
             ops' = [ops EXCEPT ![i] = Unwind(@, e)]
    /\ UNCHANGED <<MCP_AVAILABLE, config, setupVars, abortExc, turnVars,
                   extractVars, callExc, convertVars,
                   hostVars>>

CallTool(i) ==
    /\ ops[i].pc = "request"
    /\ ops[i].kind = "call"
    /\ sessions' = [sessions EXCEPT ![ops[i].sid].log =
                       Append(@, RequestOf(ops[i], i))]
    /\ \/ \E r \in CallResponses(ops[i].tool) :
             ops' = [ops EXCEPT ![i].pc = "exit_session",
                                ![i].out = ExtractResult(r)]
       \/ \E e \in {"McpError", "CancelledError"} :
             ops' = [ops EXCEPT ![i] = Unwind(@, e)]
    /\ UNCHANGED <<MCP_AVAILABLE, config, setupVars, abortExc, turnVars,
                   extractVars, callExc, convertVars,
                   hostVars>>

\* agent.py:176 / 201: ClientSession.__aexit__ closes the session.
ExitSession(i) ==
    /\ ops[i].pc = "exit_session"
    /\ sessions' = [sessions EXCEPT ![ops[i].sid].sess = "closed",
                                    ![ops[i].sid].sessCloses = @ + 1]
    /\ ops' = [ops EXCEPT ![i].pc = "exit_stdio"]
    /\ UNCHANGED <<MCP_AVAILABLE, config, setupVars, abortExc, turnVars,
                   extractVars, callExc, convertVars,
                   hostVars>>

\* agent.py:175 / 200: stdio_client.__aexit__ tears the channel down; then the
\* function returns (line 189 / 217) or the pending exception propagates.
ExitStdioAll(i) ==
    /\ ops[i].pc = "exit_stdio"
    /\ sessions' = [s \in 1..Len(sessions) |->
                       IF sessions[s].mc = ops[i].mc
                          /\ sessions[s].chan = "open"
                       THEN [sessions[s] EXCEPT !.chan = "closed",
                                                !.chanCloses = @ + 1]
                       ELSE sessions[s]]
    /\ ops' = [ops EXCEPT ![i].pc =
                 IF ops[i].exc = NoExc THEN "returned" ELSE "raised"]
    /\ UNCHANGED <<MCP_AVAILABLE, config, setupVars, abortExc, turnVars,
                   extractVars, callExc, convertVars,
                   hostVars>>

ExitStdio(i) ==
    /\ ops[i].pc = "exit_stdio"
    /\ sessions' = [sessions EXCEPT ![ops[i].sid].chan = "closed",
                                    ![ops[i].sid].chanCloses = @ + 1]
    /\ ops' = [ops EXCEPT ![i].pc =
                 IF ops[i].exc = NoExc THEN "returned" ELSE "raised"]
    /\ UNCHANGED <<MCP_AVAILABLE, config, setupVars, abortExc, turnVars,
                   extractVars, callExc, convertVars,
                   hostVars>>

\* The steps of _get_mcp_tools_async.
DiscoveryStep(i) ==
    \/ EnterStdio(i)
    \/ EnterSession(i)
    \/ Initialize(i)
    \/ ListTools(i)
    \/ ExitSession(i)
    \/ ExitStdio(i)

\* The steps of _call_mcp_tool_async.
CallStep(i) ==
    \/ EnterStdio(i)
    \/ EnterSession(i)
    \/ Initialize(i)
    \/ CallTool(i)
    \/ ExitSession(i)
    \/ ExitStdio(i)

\* A coroutine advances only when the thread of its event loop is not
\* blocked: not when the caller blocks a thread until the coroutine is done
\* and the coroutine is to run on the loop of that very thread.
Runnable(i) ==
    ~(ops[i].blocks /\ ops[i].caller = "loop" /\ ops[i].runs = "running")

\* The steps of either function.
SessionStep(i) ==
    /\ Runnable(i)
    /\ \/ DiscoveryStep(i)
       \/ CallTool(i)

-----------------------------------------------------------------------------
(* Setup: initialize, _setup_agent, _load_tools, _load_mcp_tools.          *)

\* agent.py:137-146: the closure keeps ti, mc and tn of its own call.
make_tool_func(ti, mc, tn) == [ti |-> ti, mc |-> mc, tn |-> tn]

\* agent.py:135-155: one StructuredTool per entry of mcp_tools_info; the
\* loop does not read tool_config.allowed_tools.
BridgeToolsLate(info, tc, mc) ==
    [k \in 1..Len(info) |->
        [name |-> info[k],
         func |-> make_tool_func(info[Len(info)], mc, tc.name)]]

BridgeTools(info, tc, mc) ==
    [k \in 1..Len(info) |->
        [name |-> info[k], func |-> make_tool_func(info[k], mc, tc.name)]]

\* agent.py:159: except Exception.  CancelledError derives from
\* BaseException and is not caught.
PropagatesAll(e) == TRUE

Propagates(e) == e = "CancelledError"

\* agent.py:50-53, 89-99: initialize() enters _setup_agent; the LLM client is
\* constructed and _load_tools starts with an empty list.
initialize ==
    /\ orch = "Uninitialized"
    /\ orch' = "SettingUp"
    /\ loadIdx' = 1
    /\ UNCHANGED <<MCP_AVAILABLE, config, loading, tools, printed, abortExc,
                   ops, sessions, turnVars, extractVars, callExc, convertVars,
                   hostVars>>

\* agent.py:109-118 and 103: one iteration of the for loop of _load_tools for
\* a tool config that is skipped, or the end of the loop and create_agent.
load_tools ==
    /\ orch = "SettingUp"
    /\ loading = 0
    /\ IF loadIdx > Len(config)
       THEN /\ orch' = "Ready"
            /\ UNCHANGED <<loadIdx, printed>>
       ELSE /\ \/ config[loadIdx].type # "mcp_server"
               \/ ~MCP_AVAILABLE
            /\ printed' = IF config[loadIdx].type = "mcp_server"
                          THEN printed \cup {<<"skipping", loadIdx>>}
                          ELSE printed
            /\ loadIdx' = loadIdx + 1
            /\ orch' = orch
    /\ UNCHANGED <<MCP_AVAILABLE, config, loading, tools, abortExc, ops,
                   sessions, turnVars, extractVars, callExc, convertVars,
                   hostVars>>

\* agent.py:112, 124-132: _load_mcp_tools is entered; a dict is converted by
\* MCPServerConfig(**mcp_config) outside the try block, then discovery starts.
load_mcp_tools ==
    /\ orch = "SettingUp"
    /\ loading = 0
    /\ loadIdx <= Len(config)
    /\ config[loadIdx].type = "mcp_server"
    /\ MCP_AVAILABLE
    /\ LET tc == config[loadIdx]
           conv == IF tc.mcp_config.isDict THEN MCPServerConfig(tc.mcp_config)
                   ELSE [ok |-> TRUE, value |-> tc.mcp_config]
       IN  IF conv.ok
           THEN /\ ops' = Append(ops, NewOp("discover", conv.value, tc.name,
                                            "none"))
                /\ loading' = Len(ops')
                /\ UNCHANGED <<orch, abortExc>>
           ELSE /\ orch' = "SetupFailed"
                /\ abortExc' = "ValidationError"
                /\ UNCHANGED <<ops, loading>>
    /\ UNCHANGED <<MCP_AVAILABLE, config, loadIdx, tools, printed, sessions,
                   turnVars, extractVars, callExc, convertVars,
                   hostVars>>

\* agent.py:132-164 and 113: _get_mcp_tools_async has returned or raised; the
\* tools are bridged, or the error is printed, and tools.extend runs.
load_mcp_tools_done ==
    /\ orch = "SettingUp"
    /\ loading # 0
    /\ Finished(ops[loading])
    /\ LET o == ops[loading]
       IN  IF o.pc = "returned"
           THEN /\ tools' = tools \o BridgeTools(o.out, config[loadIdx], o.mc)
                /\ printed' = printed \cup {<<"loaded", loadIdx>>}
                /\ loadIdx' = loadIdx + 1
                /\ UNCHANGED <<orch, abortExc>>
           ELSE IF Propagates(o.exc)
           THEN /\ orch' = "SetupFailed"
                /\ abortExc' = o.exc
                /\ UNCHANGED <<tools, printed, loadIdx>>
           ELSE /\ printed' = printed \cup {<<"error", loadIdx>>}
                /\ loadIdx' = loadIdx + 1
                /\ UNCHANGED <<orch, abortExc, tools>>
    /\ ops' = [ops EXCEPT ![loading].seen = TRUE]
    /\ loading' = 0
    /\ UNCHANGED <<MCP_AVAILABLE, config, sessions, turnVars, extractVars, callExc, convertVars,
                   hostVars>>

-----------------------------------------------------------------------------
(* Conversation turns: invoke, invoke_stream and the bridged callables.    *)

\* A raw event of astream_events: event["event"], event["name"] and the
\* payload (event["data"]["chunk"].content or event["data"]["output"]).
RawEvent(kind, name, data) == [event |-> kind, name |-> name, data |-> data]

\* Raw events the engine emits on its own account.
EngineEvents ==
    {RawEvent("on_chain_start", << >>, << >>),
     RawEvent("on_chain_end", << >>, << >>),
     RawEvent("on_chat_model_stream", << >>, <<"a">>),
     RawEvent("on_chat_model_stream", << >>, <<"b">>),
     RawEvent("on_tool_start", <<"add">>, << >>),
     RawEvent("on_tool_end", << >>, <<"4">>),
     RawEvent("on_llm_end", << >>, <<"c">>)}

\* agent.py:70-86: the if / elif chain of invoke_stream; the events yielded
\* for one raw event (none or one).
ClassifySwap(e) ==
    IF e.event = "on_chat_model_stream"
    THEN <<[type |-> "TEXT_STREAM", content |-> e.data]>>
    ELSE IF e.event = "on_tool_start"
    THEN <<[type |-> "TOOL_END", content |-> e.name]>>
    ELSE IF e.event = "on_tool_end"
    THEN <<[type |-> "TOOL_START", content |-> e.data]>>
    ELSE << >>

Classify(e) ==
    IF e.event = "on_chain_start" THEN << >>
    ELSE IF e.event = "on_chain_end" THEN << >>
    ELSE IF e.event = "on_chat_model_stream"
    THEN <<[type |-> "TEXT_STREAM", content |-> e.data]>>
    ELSE IF e.event = "on_tool_start"
    THEN <<[type |-> "TOOL_START", content |-> e.name]>>
    ELSE IF e.event = "on_tool_end"
    THEN <<[type |-> "TOOL_END", content |-> e.data]>>
    ELSE << >>

\* agent.py:80, 83, 86: yield hands the events to the caller in the order
\* they are produced.
EmitFront(ys, out) == out \o ys

Emit(ys, out) == ys \o out

CallOps == {i \in 1..Len(ops) : ops[i].kind = "call"}

InTurn == orch \in {"Streaming", "Invoking"}

\* UnifiedUIMessage (agent.py:24-26): role and content are any strings.
Roles == {"user", "assistant", "agent", "ai", "system", "tool"}

Contents == {<< >>, <<"hi">>}

UnifiedUIMessage(role, content) == [role |-> role, content |-> content]

\* The message classes of the engine (agent.py:11).
HumanMessage(content) == [type |-> "human", content |-> content]

AIMessage(content) == [type |-> "ai", content |-> content]

SystemMessage(content) == [type |-> "system", content |-> content]

\* agent.py:228-234: the if / elif / else chain on msg.role.
ConvertMessageStrict(msg) ==
    IF msg.role = "user" THEN HumanMessage(msg.content)
    ELSE IF msg.role = "assistant" THEN AIMessage(msg.content)
    ELSE HumanMessage(msg.content)

ConvertMessage(msg) ==
    IF msg.role = "user" THEN HumanMessage(msg.content)
    ELSE IF msg.role \in {"assistant", "agent", "ai"}
    THEN AIMessage(msg.content)
    ELSE HumanMessage(msg.content)

\* agent.py:219-235: the system instructions first when they are not empty,
\* then the for loop over messages.
RECURSIVE AppendConverted(_, _)
AppendConverted(out, msgs) ==
    IF msgs = << >> THEN out
    ELSE AppendConverted(Append(out, ConvertMessage(Head(msgs))), Tail(msgs))

_convert_to_langchain_messages(msgs) ==
    AppendConverted(IF instructions # << >>
                    THEN <<SystemMessage(instructions)>> ELSE << >>,
                    msgs)

\* agent.py:48, 103: self.agent is None until _setup_agent has run
\* create_agent; from then on it is the engine.
agentEager == "engine"

agent == IF orch \in {"Ready", "Invoking", "Streaming"} THEN "engine"
         ELSE "None"

\* agent.py:55-61: invoke converts the messages and calls self.agent.invoke;
\* on an agent that is not set up self.agent is None and the call raises
\* AttributeError.  One caller drives the agent: no call is made while a
\* turn is running.
invokeRediscover ==
    /\ ~InTurn
    /\ orch # "SettingUp"
    /\ langchain_messages' = _convert_to_langchain_messages(messages)
    /\ orch' = "SettingUp"
    /\ loadIdx' = 1
    /\ UNCHANGED <<MCP_AVAILABLE, config, loading, tools, printed, abortExc,
                   ops, sessions, turnVars, extractVars, callExc,
                   instructions, messages, hostVars>>

invoke ==
    /\ ~InTurn
    /\ langchain_messages' = _convert_to_langchain_messages(messages)
    /\ IF agent # "None"
       THEN /\ orch' = "Invoking"
            /\ raw' = << >>
            /\ received' = 0
            /\ yielded' = << >>
            /\ abortExc' = NoExc
            /\ callExc' = NoExc
       ELSE /\ callExc' = "AttributeError"
            /\ UNCHANGED <<orch, raw, received, yielded, abortExc>>
    /\ UNCHANGED <<MCP_AVAILABLE, config, loadIdx, loading, tools, printed,
                   ops, sessions, extractVars, instructions, messages,
                   hostVars>>

\* agent.py:63-69: the same for invoke_stream called with the history msgs,
\* up to the first raw event.
StartStream(msgs) ==
    /\ ~InTurn
    /\ langchain_messages' = _convert_to_langchain_messages(msgs)
    /\ IF agent # "None"
       THEN /\ orch' = "Streaming"
            /\ raw' = << >>
            /\ received' = 0
            /\ yielded' = << >>
            /\ abortExc' = NoExc
            /\ callExc' = NoExc
       ELSE /\ callExc' = "AttributeError"
            /\ UNCHANGED <<orch, raw, received, yielded, abortExc>>
    /\ UNCHANGED <<MCP_AVAILABLE, config, loadIdx, loading, tools, printed,
                   ops, sessions, extractVars, instructions, serverVars>>

invoke_stream ==
    /\ StartStream(messages)
    /\ UNCHANGED <<messages, mainVars>>

\* main.py:28, 45: between two turns the caller appends a message to the
\* history it passes to invoke / invoke_stream.
append_message(role, content) ==
    /\ ~InTurn
    /\ Len(messages) < MaxMsgs
    /\ messages' = Append(messages, UnifiedUIMessage(role, content))
    /\ UNCHANGED <<MCP_AVAILABLE, config, setupVars, abortExc, ops, sessions,
                   turnVars, extractVars, callExc, instructions,
                   langchain_messages, hostVars>>

\* The threads the engine may call a tool's function on.
Threads == {"loop", "plain"}

\* agent.py:144: asyncio.run(coro) raises RuntimeError when the calling
\* thread is running an event loop; otherwise it runs coro on a new event
\* loop of the calling thread and blocks that thread until coro is done.
run_until_complete(th) ==
    [exc |-> NoExc, runs |-> IF th = "loop" THEN "running" ELSE "new"]

asyncio_run(th) ==
    IF th = "loop" THEN [exc |-> "RuntimeError", runs |-> "none"]
    ELSE [exc |-> NoExc, runs |-> "new"]

\* agent.py:143-144, 138-140: the engine calls the bridged callable of tool t
\* on thread th; sync_tool_func creates the coroutine of tool_func, which
\* calls _call_mcp_tool_async with the captured mc, tn and ti['name'], and
\* hands it to asyncio.run.
sync_tool_func(t, th) ==
    /\ InTurn
    /\ Cardinality(CallOps) < MaxCalls
    /\ Cardinality({i \in CallOps : ~ops[i].seen}) < MaxInFlight
    /\ LET f == tools[t].func
           r == asyncio_run(th)
           o == NewOp("call", f.mc, f.tn, f.ti)
       IN  ops' = Append(ops,
                    IF r.exc = NoExc
                    THEN [o EXCEPT !.caller = th, !.blocks = TRUE,
                                   !.runs = r.runs]
                    ELSE [o EXCEPT !.caller = th, !.blocks = TRUE,
                                   !.runs = r.runs, !.pc = "raised",
                                   !.exc = r.exc])
    /\ UNCHANGED <<MCP_AVAILABLE, config, setupVars, abortExc, sessions,
                   turnVars, extractVars, callExc, convertVars,
                   hostVars>>

\* agent.py:140, 191-197: _call_mcp_tool_async is called for capability
\* tool of provider "calc" and awaited on the caller's event loop, whatever
\* other calls are in progress on it.
_call_mcp_tool_async(tool) ==
    /\ Cardinality(CallOps) < MaxCalls
    /\ ops' = Append(ops, NewOp("call", ObjStdio, "calc", tool))
    /\ UNCHANGED <<MCP_AVAILABLE, config, setupVars, abortExc, sessions,
                   turnVars, extractVars, callExc, convertVars,
                   hostVars>>

\* agent.py:144: asyncio.run(tool_func(**kwargs)) hands the result of
\* _call_mcp_tool_async back to the engine.
sync_tool_func_return(i) ==
    /\ i \in CallOps
    /\ ops[i].pc = "returned"
    /\ ~ops[i].seen
    /\ ops' = [ops EXCEPT ![i].seen = TRUE]
    /\ UNCHANGED <<MCP_AVAILABLE, config, setupVars, abortExc, sessions,
                   turnVars, extractVars, callExc, convertVars,
                   hostVars>>

\* agent.py:144, 58-61, 66-69: asyncio.run re-raises what _call_mcp_tool_async
\* raised; sync_tool_func has no handler, so the engine gets the exception.
\* The engine either turns it into a tool error of its own, or lets it
\* through, and then invoke / invoke_stream, which have no handler either,
\* raise it to their caller.
sync_tool_func_raise(i) ==
    /\ i \in CallOps
    /\ ops[i].pc = "raised"
    /\ ~ops[i].seen
    /\ ops' = [ops EXCEPT ![i].seen = TRUE]
    /\ \/ UNCHANGED <<orch, abortExc>>
       \/ /\ InTurn
          /\ orch' = "Ready"
          /\ abortExc' = ops[i].exc
    /\ UNCHANGED <<MCP_AVAILABLE, config, loadIdx, loading, tools, printed,
                   sessions, turnVars, extractVars, callExc, convertVars,
                   hostVars>>

\* agent.py:66-69: the engine emits a raw event of its own.
astream_events(e) ==
    /\ orch = "Streaming"
    /\ Len(raw) < MaxEvents
    /\ raw' = Append(raw, e)
    /\ UNCHANGED <<MCP_AVAILABLE, config, setupVars, abortExc, ops, sessions,
                   received, yielded, extractVars, callExc, convertVars,
                   hostVars>>

\* agent.py:66-86: one iteration of the async for: the next raw event is
\* taken and what the if / elif chain yields for it is handed to the caller.
stream_event ==
    /\ orch = "Streaming"
    /\ received < Len(raw)
    /\ received' = received + 1
    /\ yielded' = Emit(yielded, Classify(raw[received + 1]))
    /\ UNCHANGED <<MCP_AVAILABLE, config, setupVars, abortExc, ops, sessions,
                   raw, extractVars, callExc, convertVars,
                   hostVars>>

\* agent.py:58-61 / 66-69: the engine is done (every tool call it made has
\* come back and every raw event has been taken); the turn returns.
turn_return ==
    /\ InTurn
    /\ \A i \in CallOps : ops[i].seen
    /\ received = Len(raw)
    /\ orch' = "Ready"
    /\ UNCHANGED <<MCP_AVAILABLE, config, loadIdx, loading, tools, printed,
                   abortExc, ops, sessions, turnVars, extractVars, callExc, convertVars,
                   hostVars>>

\* agent.py:63-86: the consumer of invoke_stream stops (it cancels its
\* pending __anext__, or closes the generator).  invoke_stream has no try /
\* finally and keeps no handle on the tool calls: the exception leaves the
\* generator at line 66 and the turn is over for the orchestrator.  A tool
\* call in progress is inside asyncio.run on the thread of sync_tool_func
\* (agent.py:144), where the cancellation of the consumer's task does not
\* arrive.
stop_consuming ==
    /\ orch = "Streaming"
    /\ orch' = "Ready"
    /\ abortExc' = "CancelledError"
    /\ UNCHANGED <<MCP_AVAILABLE, config, loadIdx, loading, tools, printed,
                   ops, sessions, turnVars, extractVars, callExc,
                   convertVars, hostVars>>

\* agent.py:66-69: the engine's stream raises (the model call fails);
\* invoke_stream has no handler, so the exception leaves the generator.
astream_events_raise ==
    /\ orch = "Streaming"
    /\ orch' = "Ready"
    /\ abortExc' = "EngineError"
    /\ UNCHANGED <<MCP_AVAILABLE, config, loadIdx, loading, tools, printed,
                   ops, sessions, turnVars, extractVars, callExc,
                   convertVars, hostVars>>

-----------------------------------------------------------------------------
(* The command-line loop (main.py).                                        *)

\* What the configuration file can hold for settings.tools: a file that
\* load_config rejects, or a list of tool configs.  An mcp_config with a url
\* is parsed as an MCPServerConfig, one without stays a dict.
JsonToolConfigs == {tc \in ToolConfig : tc.name \in {"netobj", "proc", "web"}}

ConfigFiles ==
    {[valid |-> FALSE, tools |-> << >>]} \cup
    {[valid |-> TRUE, tools |-> c] : c \in SeqsUpTo(JsonToolConfigs, 1)}

\* The lines input() may return, and str.lower() on them.
Lines == {"exit", "Quit", "hello"}

Lower(line) ==
    CASE line = "exit" -> "exit"
      [] line = "Quit" -> "quit"
      [] OTHER -> line

\* The raw events of the engine in the command-line runs.
CliEvents ==
    {e \in EngineEvents :
        \/ e.event = "on_chain_end"
        \/ e.event = "on_chat_model_stream" /\ e.data = <<"a">>}

\* main.py:33-34: the contents of the TEXT_STREAM responses, concatenated.
RECURSIVE TextOf(_)
TextOf(ys) ==
    IF ys = << >> THEN << >>
    ELSE (IF Head(ys).type = "TEXT_STREAM" THEN Head(ys).content ELSE << >>)
         \o TextOf(Tail(ys))

\* main.py:17-20: load_config parses the file, or raises; main has no
\* handler, so the exception ends the process.
main_load_config(file) ==
    /\ cli = "load_config"
    /\ IF file.valid
       THEN /\ config' = file.tools
            /\ cli' = "initialize"
            /\ UNCHANGED abortExc
       ELSE /\ cli' = "crashed"
            /\ abortExc' = "ValidationError"
            /\ UNCHANGED config
    /\ UNCHANGED <<MCP_AVAILABLE, setupVars, ops, sessions, turnVars,
                   extractVars, callExc, convertVars, user_input,
                   agent_response_content, serverVars>>

\* main.py:21: await agent.initialize() has returned, or raised.
main_initialize_done ==
    /\ cli = "initialize"
    /\ orch \in {"Ready", "SetupFailed"}
    /\ cli' = IF orch = "Ready" THEN "input" ELSE "crashed"
    /\ UNCHANGED <<MCP_AVAILABLE, config, setupVars, abortExc, ops, sessions,
                   turnVars, extractVars, callExc, convertVars, user_input,
                   agent_response_content, serverVars>>

\* main.py:24-32: one line is read; exit / quit leave the loop, any other
\* line is appended as a user message and invoke_stream is started on the
\* history.
main_input(line) ==
    /\ cli = "input"
    /\ Len(messages) < MaxMsgs
    /\ user_input' = line
    /\ IF Lower(line) \in {"exit", "quit"}
       THEN /\ cli' = "exited"
            /\ UNCHANGED <<MCP_AVAILABLE, config, setupVars, abortExc, ops,
                           sessions, turnVars, extractVars, callExc,
                           convertVars, agent_response_content,
                           serverVars>>
       ELSE /\ messages' = Append(messages, UnifiedUIMessage("user", <<line>>))
            /\ agent_response_content' = << >>
            /\ cli' = "turn"
            /\ StartStream(messages')

\* main.py:32-45: the async for has ended.  When invoke_stream raised, main
\* has no handler and the process ends; otherwise the collected text, when
\* there is any, is appended as an assistant message and the loop goes on.
main_turn_done ==
    /\ cli = "turn"
    /\ orch = "Ready"
    /\ IF abortExc # NoExc
       THEN /\ cli' = "crashed"
            /\ UNCHANGED <<messages, agent_response_content>>
       ELSE /\ agent_response_content' = TextOf(yielded)
            /\ messages' = IF agent_response_content' # << >>
                           THEN Append(messages,
                                   UnifiedUIMessage("assistant",
                                                    agent_response_content'))
                           ELSE messages
            /\ cli' = "input"
    /\ UNCHANGED <<MCP_AVAILABLE, config, setupVars, abortExc, ops, sessions,
                   turnVars, extractVars, callExc, instructions,
                   langchain_messages, user_input, serverVars>>

-----------------------------------------------------------------------------
(* The example provider (mcp/server.py).  Here a text is the sequence of   *)
(* its characters.                                                         *)

Bearer == <<"B", "e", "a", "r", "e", "r", " ">>

Basic == <<"B", "a", "s", "i", "c", " ">>

\* The values of MCP_AUTH_TOKEN and the tokens a client may send.
Tokens == SeqsUpTo({"a", "b"}, MaxToken)

\* The Authorization headers of a request; << >> when there is none.
Schemes == {Bearer, Basic, <<"b">> \o Tail(Bearer)}

Headers == {<< >>} \cup {scheme \o tok : scheme \in Schemes, tok \in Tokens}

\* str.startswith.
StartsWith(text, prefix) ==
    /\ Len(text) >= Len(prefix)
    /\ SubSeq(text, 1, Len(prefix)) = prefix

\* server.py:20-26: check_auth on a request whose Authorization header is
\* header (request.headers.get("Authorization", "")).
check_auth(header) ==
    IF StartsWith(header, Bearer)
    THEN SubSeq(header, 8, Len(header)) = VALID_TOKEN
    ELSE FALSE

\* server.py:29-100: a tool request arrives with Authorization header
\* header.  The tools are registered with @mcp.tool() and served by
\* mcp.run(transport="sse"); check_auth is not called by any of them nor
\* installed as a middleware, so the request is dispatched to the tool.
tool_request(header) ==
    /\ auth_header' = header
    /\ served' = "served"
    /\ UNCHANGED <<MCP_AVAILABLE, config, setupVars, abortExc, ops, sessions,
                   turnVars, extractVars, callExc, convertVars, mainVars,
                   VALID_TOKEN>>

-----------------------------------------------------------------------------
(* The agent: ReACTAgent(config), then initialize and conversation turns.  *)

NoResponse == [hasContent |-> FALSE, content |-> << >>]
NoResult == [done |-> FALSE, text |-> << >>]

\* agent.py:44-48: __init__ keeps the configuration; nothing is set up yet.
Constructed ==
    /\ orch = "Uninitialized"
    /\ loadIdx = 0
    /\ loading = 0
    /\ tools = << >>
    /\ printed = {}
    /\ abortExc = NoExc
    /\ ops = << >>
    /\ sessions = << >>
    /\ raw = << >>
    /\ received = 0
    /\ yielded = << >>
    /\ callExc = NoExc
    /\ messages = << >>
    /\ langchain_messages = << >>

\* The program that drives the agent is not main.py, and no provider
\* server of the repository is running.
NoHost ==
    /\ cli = "none"
    /\ user_input = "none"
    /\ agent_response_content = << >>
    /\ VALID_TOKEN = << >>
    /\ auth_header = << >>
    /\ served = "none"

\* The agent with one process provider (or none), through setup and turns
\* in which the engine calls the bridged capabilities.
TurnConfigs ==
    SeqsUpTo({tc \in ToolConfig : tc.name = "calc"}, 1)

Init ==
    /\ MCP_AVAILABLE = TRUE
    /\ config \in TurnConfigs
    /\ Constructed
    /\ response = NoResponse
    /\ result = NoResult
    /\ instructions = <<"be brief">>
    /\ NoHost

Next ==
    \/ initialize
    \/ load_tools
    \/ load_mcp_tools
    \/ load_mcp_tools_done
    \/ \E i \in 1..Len(ops) : SessionStep(i)
    \/ invoke
    \/ invoke_stream
    \/ \E t \in 1..Len(tools), th \in Threads : sync_tool_func(t, th)
    \/ \E i \in 1..Len(ops) : sync_tool_func_return(i)
    \/ \E i \in 1..Len(ops) : sync_tool_func_raise(i)
    \/ turn_return

Spec == Init /\ [][Next]_vars

\* Setup alone, over every list of tool configs.
InitSetup ==
    /\ MCP_AVAILABLE \in BOOLEAN
    /\ config \in SeqsUpTo(ToolConfig, MaxProviders)
    /\ Constructed
    /\ response = NoResponse
    /\ result = NoResult
    /\ instructions = <<"be brief">>
    /\ NoHost

NextSetup ==
    \/ initialize
    \/ load_tools
    \/ load_mcp_tools
    \/ load_mcp_tools_done
    \/ \E i \in 1..Len(ops) : DiscoveryStep(i)

SpecSetup == InitSetup /\ [][NextSetup]_vars

\* A streaming turn of an agent without providers, over every sequence of
\* raw events of the engine.
InitStream ==
    /\ MCP_AVAILABLE = TRUE
    /\ config = << >>
    /\ Constructed
    /\ response = NoResponse
    /\ result = NoResult
    /\ instructions = <<"be brief">>
    /\ NoHost

NextStream ==
    \/ initialize
    \/ load_tools
    \/ invoke_stream
    \/ \E e \in EngineEvents : astream_events(e)
    \/ stream_event
    \/ turn_return

SpecStream == InitStream /\ [][NextStream]_vars

\* Result extraction alone, over every response.
InitExtract ==
    /\ MCP_AVAILABLE = TRUE
    /\ config = << >>
    /\ Constructed
    /\ response \in ResponsesUpTo(MaxFrags)
    /\ result = NoResult
    /\ instructions = <<"be brief">>
    /\ NoHost

\* agent.py:199-217: result is built from response and returned.
extract_result ==
    /\ ~result.done
    /\ result' = [done |-> TRUE, text |-> ExtractResult(response)]
    /\ UNCHANGED <<MCP_AVAILABLE, config, setupVars, abortExc, ops, sessions,
                   turnVars, response, callExc, convertVars, hostVars>>

NextExtract == extract_result

SpecExtract == InitExtract /\ [][NextExtract]_vars

\* Turns whose consumer may stop before the stream has ended.
NextCancel ==
    \/ Next
    \/ stop_consuming

SpecCancel == Init /\ [][NextCancel]_vars

\* Concurrent calls of _call_mcp_tool_async on one agent, for the
\* capabilities of one provider.
NextCalls ==
    \/ \E tool \in {"add", "subtract"} : _call_mcp_tool_async(tool)
    \/ \E i \in 1..Len(ops) : CallStep(i)

SpecCalls == Init /\ [][NextCalls]_vars

\* The command-line program: main() from its start.
InitCLI ==
    /\ MCP_AVAILABLE = TRUE
    /\ config = << >>
    /\ Constructed
    /\ response = NoResponse
    /\ result = NoResult
    /\ instructions = <<"be brief">>
    /\ cli = "load_config"
    /\ user_input = "none"
    /\ agent_response_content = << >>
    /\ VALID_TOKEN = << >>
    /\ auth_header = << >>
    /\ served = "none"

NextCLI ==
    \/ \E file \in ConfigFiles : main_load_config(file)
    \/ /\ cli = "initialize"
       /\ \/ initialize
          \/ load_tools
          \/ load_mcp_tools
          \/ load_mcp_tools_done
          \/ \E i \in 1..Len(ops) : DiscoveryStep(i)
    \/ main_initialize_done
    \/ \E line \in Lines : main_input(line)
    \/ /\ cli = "turn"
       /\ \/ \E e \in CliEvents : astream_events(e)
          \/ stream_event
          \/ astream_events_raise
          \/ turn_return
    \/ main_turn_done

SpecCLI == InitCLI /\ [][NextCLI]_vars

\* The provider server alone, over every token and every request header.
InitServer ==
    /\ MCP_AVAILABLE = TRUE
    /\ config = << >>
    /\ Constructed
    /\ response = NoResponse
    /\ result = NoResult
    /\ instructions = <<"be brief">>
    /\ cli = "none"
    /\ user_input = "none"
    /\ agent_response_content = << >>
    /\ VALID_TOKEN \in Tokens \ {<< >>}
    /\ auth_header = << >>
    /\ served = "none"

NextServer == \E header \in Headers : tool_request(header)

SpecServer == InitServer /\ [][NextServer]_vars

\* The agent with two process providers, through setup and a streaming turn
\* in which the engine calls bridged capabilities of both; each call is
\* followed to the end of _call_mcp_tool_async.
InitBridge ==
    /\ MCP_AVAILABLE = TRUE
    /\ config \in {c \in [1..2 -> ToolConfig] :
                      c[1].name = "calc" /\ c[2].name = "calc2"}
    /\ Constructed
    /\ response = NoResponse
    /\ result = NoResult
    /\ instructions = <<"be brief">>
    /\ NoHost

NextBridge ==
    \/ initialize
    \/ load_tools
    \/ load_mcp_tools
    \/ load_mcp_tools_done
    \/ \E i \in 1..Len(ops) : SessionStep(i)
    \/ invoke_stream
    \/ \E t \in 1..Len(tools), th \in Threads : sync_tool_func(t, th)

SpecBridge == InitBridge /\ [][NextBridge]_vars

\* Message conversion: an agent without providers, over every history the
\* caller builds up between its turns, with and without instructions.
InitConvert ==
    /\ MCP_AVAILABLE = TRUE
    /\ config = << >>
    /\ Constructed
    /\ response = NoResponse
    /\ result = NoResult
    /\ instructions \in {<< >>, <<"be brief">>}
    /\ NoHost

NextConvert ==
    \/ initialize
    \/ load_tools
    \/ \E r \in Roles, c \in Contents : append_message(r, c)
    \/ invoke
    \/ invoke_stream
    \/ turn_return

SpecConvert == InitConvert /\ [][NextConvert]_vars

-----------------------------------------------------------------------------
(* Session scope.                                                          *)

SessionsOf(i) == {s \in 1..Len(sessions) : sessions[s].owner = i}

Released(s) ==
    /\ sessions[s].chan = "closed"
    /\ sessions[s].sess = "closed"
    /\ sessions[s].chanCloses = 1
    /\ sessions[s].sessCloses = 1

\* C1: every session a discovery or an invocation opened is closed and its
\* channel torn down exactly once on every exit path, before the function
\* returns or the error reaches the caller: once an operation has returned
\* or raised, nothing it opened is still open, and nothing is closed twice.
SessionScopeRelease ==
    /\ \A i \in 1..Len(ops) :
          Finished(ops[i]) => \A s \in SessionsOf(i) : Released(s)
    /\ \A s \in 1..Len(sessions) :
          sessions[s].chanCloses <= 1 /\ sessions[s].sessCloses <= 1

\* Setup's discovery has returned, one invocation was cancelled and another
\* failed in the handshake, both after their session was open.
SessionScopeReleaseWitness ==
    /\ \E i \in 1..Len(ops) :
          /\ ops[i].kind = "discover" /\ ops[i].pc = "returned"
          /\ \A s \in SessionsOf(i) : Released(s)
    /\ \E i \in CallOps :
          /\ ops[i].pc = "raised" /\ ops[i].sid # 0
          /\ ops[i].exc = "CancelledError"
    /\ \E i \in CallOps :
          /\ ops[i].pc = "raised" /\ ops[i].sid # 0
          /\ ops[i].exc = "TransportError"

\* C2: every discovery and every invocation opens its own fresh session: a
\* session carries the requests of the operation that opened it and of no
\* other, no two operations share a session, and no session is open once
\* its operation is over.
NoSessionReuse ==
    /\ \A s \in 1..Len(sessions) :
          /\ \A k \in 1..Len(sessions[s].log) :
                sessions[s].log[k].op = sessions[s].owner
          /\ sessions[s].chan = "open" => ~Finished(ops[sessions[s].owner])
    /\ \A i \in 1..Len(ops) :
          ops[i].sid # 0 => sessions[ops[i].sid].owner = i
    /\ \A i, j \in 1..Len(ops) :
          (i # j /\ ops[i].sid # 0) => ops[i].sid # ops[j].sid

\* Setup's discovery and two invocations have each sent their request, on
\* three different sessions.
NoSessionReuseWitness ==
    /\ Len(sessions) >= 3
    /\ \E i \in 1..Len(ops) :
          /\ ops[i].kind = "discover" /\ ops[i].pc = "returned"
    /\ \E i, j \in CallOps :
          /\ i # j
          /\ ops[i].pc = "returned" /\ ops[j].pc = "returned"
          /\ ops[i].tool = ops[j].tool

-----------------------------------------------------------------------------
(* Invocations.                                                            *)

\* The "invoke capability" requests operation i has sent, over all sessions.
InvokeRequests(i) ==
    UNION {{<<s, k>> : k \in {n \in 1..Len(sessions[s].log) :
                                /\ sessions[s].log[n].op = i
                                /\ sessions[s].log[n].req = "call_tool"}} :
           s \in 1..Len(sessions)}

AllInvokeRequests ==
    UNION {{<<s, k>> : k \in {n \in 1..Len(sessions[s].log) :
                                sessions[s].log[n].req = "call_tool"}} :
           s \in 1..Len(sessions)}

\* C10: a call of a bridged capability sends at most one "invoke capability"
\* request, names its own capability in it, and sends exactly one when its
\* session was opened and the handshake succeeded; a failed request is not
\* sent again, so the provider sees no more requests than there were calls.
OneExchangePerInvocation ==
    /\ \A i \in CallOps :
          /\ Cardinality(InvokeRequests(i)) <= 1
          /\ \A q \in InvokeRequests(i) :
                sessions[q[1]].log[q[2]].name = ops[i].tool
          /\ (Finished(ops[i]) /\ ops[i].sid # 0
                 /\ sessions[ops[i].sid].initialized)
                => Cardinality(InvokeRequests(i)) = 1
          /\ (Finished(ops[i])
                 /\ (ops[i].sid = 0 \/ ~sessions[ops[i].sid].initialized))
                => InvokeRequests(i) = {}
    /\ Cardinality(AllInvokeRequests) <= Cardinality(CallOps)

\* One call failed at its request after a successful handshake, another
\* failed before the handshake was done, and both are over.
OneExchangePerInvocationWitness ==
    /\ \E i \in CallOps :
          /\ ops[i].pc = "raised" /\ ops[i].exc = "McpError"
          /\ Cardinality(InvokeRequests(i)) = 1
    /\ \E i \in CallOps :
          /\ ops[i].pc = "raised" /\ ops[i].sid # 0
          /\ ~sessions[ops[i].sid].initialized

\* C4: a failure of a capability's invocation stays in that invocation's
\* result and does not terminate the conversation turn: no turn is left by
\* an exception.
InvocationFailureContained ==
    orch \in {"Ready", "Streaming", "Invoking"} => abortExc = NoExc

-----------------------------------------------------------------------------
(* Setup.                                                                  *)

\* The indices, in order, of the first n tool configs of type mcp_server.
RECURSIVE McpProviders(_)
McpProviders(n) ==
    IF n = 0 THEN << >>
    ELSE McpProviders(n - 1)
         \o (IF config[n].type = "mcp_server" THEN <<n>> ELSE << >>)

\* The tool config the j-th discovery was started for.
ProviderOf(j) == McpProviders(Len(config))[j]

\* The tool set as (capability, provider) pairs.
ToolSet ==
    [k \in 1..Len(tools) |-> [name |-> tools[k].name, tn |-> tools[k].func.tn]]

\* Whether capability n of the j-th discovery passes allowed_tools.
Allowed(j, n) ==
    LET allowed == config[ProviderOf(j)].allowed_tools
    IN  allowed = Absent \/ n \in allowed

\* The capabilities, in order, of the first j discoveries that setup has
\* taken the outcome of; with filter, each manifest restricted to the
\* provider's allowed_tools.
RECURSIVE Discovered(_, _)
Discovered(j, filter) ==
    IF j = 0 THEN << >>
    ELSE LET kept == SelectSeq(ops[j].out,
                               LAMBDA n : ~filter \/ Allowed(j, n))
         IN  Discovered(j - 1, filter)
             \o (IF ops[j].seen /\ ops[j].pc = "returned"
                 THEN [k \in 1..Len(kept) |->
                         [name |-> kept[k], tn |-> ops[j].tn]]
                 ELSE << >>)

\* C3: a provider whose session cannot be established or whose handshake or
\* listing fails does not abort setup (only a rejected configuration or a
\* cancellation does); its failure is printed, discovery is still attempted
\* for every other provider, and the tool set holds exactly the capabilities
\* of the providers whose discovery succeeded.
FailureIsolation ==
    /\ orch = "SetupFailed"
          => abortExc \in {"ValidationError", "CancelledError"}
    /\ ToolSet = Discovered(Len(ops), FALSE)
    /\ \A j \in 1..Len(ops) :
          /\ ops[j].tn = config[ProviderOf(j)].name
          /\ (ops[j].seen /\ ops[j].pc = "raised"
                 /\ ops[j].exc # "CancelledError")
                => <<"error", ProviderOf(j)>> \in printed
    /\ (orch = "Ready" /\ MCP_AVAILABLE)
          => /\ Len(ops) = Len(McpProviders(Len(config)))
             /\ \A j \in 1..Len(ops) : ops[j].seen

\* Setup is over: the first provider's session could not be established,
\* the second provider's discovery succeeded, and its capabilities are the
\* tool set.
FailureIsolationWitness ==
    /\ orch = "Ready"
    /\ Len(ops) = 2
    /\ ops[1].pc = "raised" /\ ops[1].exc = "TransportError"
    /\ ops[2].pc = "returned" /\ Len(ops[2].out) = 2
    /\ Len(tools) = 2

\* C5: the capabilities bridged for a provider are its manifest restricted
\* to allowed_tools when allowed_tools is present, and its whole manifest
\* otherwise.
AllowedToolsFiltering ==
    ToolSet = Discovered(Len(ops), TRUE)

\* C6: a configuration is rejected only when it has neither command nor url;
\* the transport of a command configuration is Process and that of a url
\* configuration is Network, and building it does not fail.
TransportVariantInference ==
    /\ (orch = "SetupFailed" /\ abortExc = "ValidationError")
          => /\ ~config[loadIdx].mcp_config.command
             /\ ~config[loadIdx].mcp_config.url
    /\ \A j \in 1..Len(ops) :
          LET c == config[ProviderOf(j)].mcp_config
          IN  /\ ops[j].exc # "AttributeError"
              /\ (ops[j].sid # 0 /\ c.url /\ ~c.command)
                    => sessions[ops[j].sid].transport = "Network"
              /\ (ops[j].sid # 0 /\ c.command /\ ~c.url)
                    => sessions[ops[j].sid].transport = "Process"

-----------------------------------------------------------------------------
(* Event classification.                                                   *)

\* The normalized form the mapping table gives for a raw event.
NormalForm(e) ==
    CASE e.event = "on_chat_model_stream" ->
            <<[type |-> "TEXT_STREAM", content |-> e.data]>>
      [] e.event = "on_tool_start" ->
            <<[type |-> "TOOL_START", content |-> e.name]>>
      [] e.event = "on_tool_end" ->
            <<[type |-> "TOOL_END", content |-> e.data]>>
      [] OTHER -> << >>

RECURSIVE NormalForms(_)
NormalForms(es) ==
    IF es = << >> THEN << >>
    ELSE NormalForm(Head(es)) \o NormalForms(Tail(es))

\* C7: for every raw event it takes, invoke_stream yields what the table
\* says: TEXT_STREAM with the chunk, TOOL_START with the tool name, TOOL_END
\* with the output, and nothing for a chain event or an unknown kind; the
\* stream goes on after any of them.
ClassifierTotality ==
    [][received' = received + 1
          => /\ yielded' = yielded \o NormalForm(raw[received'])
             /\ Len(yielded') <= Len(yielded) + 1
             /\ orch' = orch]_vars

\* An unknown kind, a text chunk and a tool end have all been taken, and the
\* stream is still running.
ClassifierTotalityWitness ==
    /\ orch = "Streaming"
    /\ received = 3
    /\ {raw[k].event : k \in 1..3}
          = {"on_llm_end", "on_chat_model_stream", "on_tool_end"}
    /\ Len(yielded) = 2

\* C8: the events yielded so far are the raw events taken so far, ignored
\* kinds removed and the others classified, in the same order; none is
\* reordered, duplicated, dropped or yielded before its raw event is taken.
EventOrderPreserved ==
    /\ yielded = NormalForms(SubSeq(raw, 1, received))
    /\ Len(yielded) <= received

\* A tool start, an ignored chain event and a tool end were taken in this
\* order, and TOOL_START then TOOL_END were yielded.
EventOrderPreservedWitness ==
    /\ received = 3
    /\ raw[1].event = "on_tool_start"
    /\ raw[2].event = "on_chain_end"
    /\ raw[3].event = "on_tool_end"
    /\ Len(yielded) = 2
    /\ yielded[1].type = "TOOL_START"
    /\ yielded[2].type = "TOOL_END"

-----------------------------------------------------------------------------
(* Result extraction.                                                      *)

\* The textual fragments of a response, in order.
TextFragments(r) ==
    SelectSeq(r.content, LAMBDA f : f.kind \in {"text", "dict"})

RECURSIVE Joined(_)
Joined(fs) == IF fs = << >> THEN << >> ELSE Head(fs).text \o Joined(Tail(fs))

\* C9: the result is the concatenation, in order, of the textual fragments
\* of the response; when the response has no textual fragment it is the
\* string representation of the response, which is not empty.
ResultExtraction ==
    result.done
       => IF response.hasContent /\ TextFragments(response) # << >>
          THEN result.text = Joined(TextFragments(response))
          ELSE result.text = Str(response) /\ result.text # << >>

-----------------------------------------------------------------------------
(* Orchestrator.                                                           *)

\* The steps of the orchestrator's state machine; setup is the step from
\* Uninitialized to Ready, with SettingUp while it runs and SetupFailed when
\* it is left by an exception.
OrchestratorSteps ==
    {<<"Uninitialized", "SettingUp">>, <<"SettingUp", "Ready">>,
     <<"SettingUp", "SetupFailed">>,
     <<"Ready", "Invoking">>, <<"Ready", "Streaming">>,
     <<"Invoking", "Ready">>, <<"Streaming", "Ready">>}

\* C11: the orchestrator moves Uninitialized -> Ready -> (Invoking |
\* Streaming) -> Ready -> ...; the engine is started by invoke or
\* invoke_stream from Ready only, a call made before setup has constructed
\* the engine raises and runs nothing, and a turn that ends, with a result
\* or with an exception, leaves the orchestrator Ready.
OrchestratorStateMachine ==
    [][/\ orch' # orch => <<orch, orch'>> \in OrchestratorSteps
       /\ (orch' \in {"Invoking", "Streaming"} /\ orch' # orch)
             => orch = "Ready"
       /\ (orch \in {"Invoking", "Streaming"} /\ orch' # orch)
             => orch' = "Ready"
       /\ orch \notin {"Ready", "Invoking", "Streaming"}
             => /\ raw' = raw
                /\ \A i \in 1..Len(ops') :
                      i > Len(ops) => ops'[i].kind = "discover"]_vars

\* A call made before setup was rejected without running anything, and
\* setup has since made the orchestrator Ready with its tools.
OrchestratorStateMachineWitness ==
    /\ orch = "Ready"
    /\ callExc = "AttributeError"
    /\ Len(tools) = 2
    /\ raw = << >>
    /\ CallOps = {}

-----------------------------------------------------------------------------
(* Message conversion.                                                     *)

\* The engine's role of an external role, by the conversion policy.
RoleOf(role) ==
    CASE role = "user" -> "human"
      [] role \in {"assistant", "agent", "ai"} -> "ai"
      [] OTHER -> "human"

\* What the engine is handed for history msgs is out: the instructions once,
\* first, when there are any, then msgs message by message.
Converted(msgs, out) ==
    LET off == IF instructions # << >> THEN 1 ELSE 0
    IN  /\ Len(out) = Len(msgs) + off
        /\ off = 1 => out[1] = [type |-> "system", content |-> instructions]
        /\ Cardinality({k \in 1..Len(out) : out[k].type = "system"}) = off
        /\ \A k \in 1..Len(msgs) :
              /\ out[k + off].content = msgs[k].content
              /\ out[k + off].type = RoleOf(msgs[k].role)

\* C12: at the start of every turn the engine is handed the system
\* instructions exactly once, as the first message, when instructions are
\* configured and not at all otherwise, followed by one message per message
\* of the history, in order, with the content unchanged and the role mapped
\* (user to user; assistant, agent, ai to assistant; any other to user); the
\* history itself is not changed, so this holds turn after turn as it grows.
MessageConversion ==
    [][(orch' # orch /\ orch' \in {"Invoking", "Streaming"})
          => /\ Converted(messages, langchain_messages')
             /\ messages' = messages]_vars

\* A streaming turn has started on a history of three messages of roles
\* system, agent and tool, with instructions configured; four messages were
\* handed to the engine, the third an assistant message.
MessageConversionWitness ==
    /\ orch = "Streaming"
    /\ instructions # << >>
    /\ Len(messages) = 3
    /\ messages[1].role = "system"
    /\ messages[2].role = "agent"
    /\ messages[3].role = "tool"
    /\ Len(langchain_messages) = 4
    /\ langchain_messages[3].type = "ai"

-----------------------------------------------------------------------------
(* Discovery.                                                              *)

DiscoverOps == {i \in 1..Len(ops) : ops[i].kind = "discover"}

\* The "list capabilities" requests sent on session s.
ListRequests(s) ==
    {k \in 1..Len(sessions[s].log) : sessions[s].log[k].req = "list_tools"}

\* One discovery per provider, made by setup: the j-th discovery is that of
\* the j-th provider, it opens at most one session and lists at most once
\* (exactly once when it returned), only discoveries list, and once setup is
\* over every provider has had its discovery.
DiscoveredOnce ==
    /\ Cardinality(DiscoverOps) <= Len(McpProviders(Len(config)))
    /\ \A j \in DiscoverOps :
          /\ j <= Len(McpProviders(Len(config)))
          /\ ops[j].tn = config[ProviderOf(j)].name
          /\ Cardinality(SessionsOf(j)) <= 1
          /\ \A s \in SessionsOf(j) : Cardinality(ListRequests(s)) <= 1
          /\ ops[j].pc = "returned"
                => \E s \in SessionsOf(j) : Cardinality(ListRequests(s)) = 1
    /\ \A s \in 1..Len(sessions) :
          ListRequests(s) # {} => sessions[s].owner \in DiscoverOps
    /\ (orch \in {"Ready", "Invoking", "Streaming"} /\ MCP_AVAILABLE)
          => Cardinality(DiscoverOps) = Len(McpProviders(Len(config)))

\* C13: each configured provider gets one discovery, at setup; no step of a
\* turn (the start of invoke or invoke_stream, a tool call, the end of the
\* turn) starts a discovery or changes the tool set or the configuration.
DiscoveryHappensOnce ==
    [][/\ DiscoveredOnce'
       /\ orch \in {"Ready", "Invoking", "Streaming"}
             => /\ tools' = tools
                /\ config' = config
                /\ DiscoverOps' = DiscoverOps
                /\ \A s \in 1..Len(sessions) :
                      ListRequests(s)' = ListRequests(s)]_vars

\* After setup discovered two capabilities, two tool calls were made and
\* came back, one of them ending its turn by an exception; there is still
\* the one discovery and the two tools.
DiscoveryHappensOnceWitness ==
    /\ orch = "Ready"
    /\ Cardinality(DiscoverOps) = 1
    /\ Len(tools) = 2
    /\ Cardinality({i \in CallOps : ops[i].seen}) = 2
    /\ abortExc # NoExc

-----------------------------------------------------------------------------
(* The synchronous wrapper.                                                *)

\* C20: a call of a bridged capability through sync_tool_func never waits
\* for a coroutine that is to run on the event loop of the thread the
\* wrapper blocks.  Called on a thread that is running an event loop the
\* wrapper fails at once, with RuntimeError and without a session; called on
\* any other thread the coroutine has an event loop of its own, so that it
\* can always take its next step, and once it is done the wrapper can
\* always return its result or raise its exception.
NoWrapperDeadlock ==
    \A i \in CallOps :
       /\ Runnable(i)
       /\ ops[i].caller = "loop"
             => /\ ops[i].pc = "raised"
                /\ ops[i].exc = "RuntimeError"
                /\ ops[i].sid = 0
       /\ ~Finished(ops[i]) => ENABLED SessionStep(i)
       /\ (Finished(ops[i]) /\ ~ops[i].seen)
             => ENABLED (sync_tool_func_return(i) \/ sync_tool_func_raise(i))

\* During a streaming turn the engine called one tool on the thread of the
\* running event loop, which failed at once, and one on another thread,
\* whose call is waiting for the provider's answer.
NoWrapperDeadlockWitness ==
    /\ orch = "Streaming"
    /\ \E i \in CallOps :
          /\ ops[i].caller = "loop" /\ ops[i].seen
          /\ ops[i].exc = "RuntimeError"
    /\ \E i \in CallOps :
          /\ ops[i].caller = "plain" /\ ops[i].pc = "request"
          /\ sessions[ops[i].sid].initialized

-----------------------------------------------------------------------------
(* Handshake.                                                              *)

\* C19: on every session the channel is established first, then the
\* session is entered and the initialize handshake is sent, and the list or
\* invoke request is sent only after the handshake has completed: the first
\* message of a session is initialize, at most one request follows it and
\* only on an initialized session; an operation whose channel could not be
\* established has no session at all, and a session whose handshake failed
\* carries no request.
HandshakePrecedesRequest ==
    /\ \A s \in 1..Len(sessions) :
          LET log == sessions[s].log
          IN  /\ Len(log) <= 2
              /\ log # << >>
                    => /\ log[1].req = "initialize"
                       /\ sessions[s].sess # "none"
              /\ sessions[s].initialized => log # << >>
              /\ Len(log) = 2
                    => /\ sessions[s].initialized
                       /\ log[2].req \in {"list_tools", "call_tool"}
              /\ ~sessions[s].initialized => Len(log) <= 1
    /\ \A i \in 1..Len(ops) :
          /\ ops[i].sid = 0 => SessionsOf(i) = {}
          /\ ops[i].pc \in {"stdio_client", "ClientSession"}
                => \A s \in SessionsOf(i) : sessions[s].log = << >>

\* Setup's discovery listed after its handshake; one invocation's handshake
\* failed and its session was closed without a request, and another sent its
\* request after the handshake.
HandshakePrecedesRequestWitness ==
    /\ \E i \in DiscoverOps :
          /\ ops[i].pc = "returned"
          /\ Len(sessions[ops[i].sid].log) = 2
    /\ \E i \in CallOps :
          /\ ops[i].pc = "raised" /\ ops[i].sid # 0
          /\ ~sessions[ops[i].sid].initialized
          /\ Len(sessions[ops[i].sid].log) = 1
    /\ \E i \in CallOps :
          /\ ops[i].sid # 0
          /\ sessions[ops[i].sid].initialized
          /\ Len(sessions[ops[i].sid].log) = 2
          /\ sessions[ops[i].sid].log[2].req = "call_tool"

-----------------------------------------------------------------------------
(* Cancellation of streaming.                                              *)

\* An invocation that has not yet got the provider's answer.
Pending(o) ==
    o.pc \in {"stdio_client", "ClientSession", "initialize", "request"}

\* C14: once the consumer of invoke_stream has stopped, the tool invocations
\* that were in flight are cancelled: from then on such an invocation does
\* nothing but unwind with CancelledError, closing its session and channel;
\* it does not open its channel, complete its handshake or get its answer.
StreamCancellation ==
    [][(orch = "Ready" /\ abortExc = "CancelledError")
          => \A i \in CallOps :
                (Pending(ops[i]) /\ ops'[i].pc # ops[i].pc)
                   => ops'[i].exc = "CancelledError"]_vars

-----------------------------------------------------------------------------
(* Concurrent invocations.                                                 *)

\* Every invocation has a session of its own, which carries its requests
\* only, and an invocation that returned has the answer to its own request.
OwnSessionOwnAnswer ==
    /\ \A i, j \in CallOps :
          (i # j /\ ops[i].sid # 0) => ops[i].sid # ops[j].sid
    /\ \A s \in 1..Len(sessions) :
          \A k \in 1..Len(sessions[s].log) :
             /\ sessions[s].log[k].op = sessions[s].owner
             /\ sessions[s].log[k].req = "call_tool"
                   => sessions[s].log[k].name = ops[sessions[s].owner].tool
    /\ \A i \in CallOps :
          /\ ops[i].sid # 0 => sessions[ops[i].sid].owner = i
          /\ ops[i].pc = "returned" => ops[i].out = Answer(ops[i].tool)

\* C15: however the steps of concurrent invocations interleave, each has a
\* session distinct from all others, gets the answer to its own request,
\* and a step of one invocation (its failure and the teardown of its
\* session included) changes neither another invocation nor another
\* invocation's session.
ConcurrentIsolation ==
    [][/\ OwnSessionOwnAnswer'
       /\ \A i, j \in CallOps :
             (i # j /\ ops'[i] # ops[i])
                => /\ ops'[j] = ops[j]
                   /\ ops[j].sid # 0
                         => sessions'[ops[j].sid] = sessions[ops[j].sid]]_vars

\* Two invocations of the same capability overlapped (the one called second
\* opened its session first): the second failed after its handshake and its
\* session is closed, the first returned its answer.
ConcurrentIsolationWitness ==
    /\ Len(ops) >= 2
    /\ ops[1].tool = ops[2].tool
    /\ ops[1].sid = 2 /\ ops[2].sid = 1
    /\ ops[2].pc = "raised" /\ ops[2].exc = "McpError"
    /\ sessions[1].chan = "closed"
    /\ ops[1].pc = "returned" /\ ops[1].out = <<"4">>

-----------------------------------------------------------------------------
(* Command-line loop.                                                      *)

\* C16: the command-line loop is left by the input exit or quit only: the
\* process does not end after a conversation turn has started unless that
\* was the input, whatever was raised during a turn; a rejected
\* configuration ends it before any turn.
CliLoopResilience ==
    /\ cli = "exited" => Lower(user_input) \in {"exit", "quit"}
    /\ cli = "crashed" => messages = << >>
    /\ (cli = "crashed" /\ abortExc = "ValidationError") => raw = << >>

-----------------------------------------------------------------------------
(* Provider-side authentication.                                           *)

\* C17: the provider serves a tool request only when its Authorization
\* header is "Bearer " followed by exactly the configured token; a request
\* without the header, with another scheme, or with a token that differs in
\* any character is not served.
BearerAuthentication ==
    served = "served" => auth_header = Bearer \o VALID_TOKEN

-----------------------------------------------------------------------------
(* Bridged callables.                                                      *)

\* The capabilities setup discovered, in the order they were bridged, each
\* with the provider it was listed by.
Origins == Discovered(Cardinality(DiscoverOps), FALSE)

\* The configuration of the provider named tn.
ConfigOf(tn) ==
    (CHOOSE k \in 1..Len(config) : config[k].name = tn)

\* C18: the callable bridged for a capability calls _call_mcp_tool_async
\* with that capability's name and with the name and transport of the
\* provider that listed it, whichever capabilities were bridged before or
\* after it and from whichever providers; the request then sent names the
\* same capability.
IdentityCapture ==
    [][/\ \A t \in 1..Len(tools), th \in Threads :
             sync_tool_func(t, th)
                => LET o == ops'[Len(ops')]
                   IN  /\ tools[t].name = Origins[t].name
                       /\ o.tool = Origins[t].name
                       /\ o.tn = Origins[t].tn
                       /\ o.mc = config[ConfigOf(o.tn)].mcp_config
       /\ \A i \in CallOps :
             \A q \in InvokeRequests(i)' :
                sessions'[q[1]].log[q[2]].name = ops[i].tool]_vars

\* Both providers listed add and subtract; the callable of the second
\* provider's add, bridged third of four, was called and has sent its
\* request, for add and on a session of the second provider.
IdentityCaptureWitness ==
    /\ Len(tools) = 4
    /\ \E i \in CallOps :
          /\ ops[i].tn = "calc2" /\ ops[i].tool = "add"
          /\ InvokeRequests(i) # {}
          /\ ops[i].pc = "returned"

====
